---- MODULE Spec2Model ----
(***************************************************************************)
(* Model of src/camera.py: the PiCameraController class (the definition in *)
(* force, lines 153-442) and one invocation of main() (lines 445-467).     *)
(*                                                                         *)
(* Two threads act on the controller: the foreground thread ("main"),      *)
(* which runs main() / run_interactive_mode(), and the GPIO library's      *)
(* callback thread ("button"), which runs _button_pressed().  Every call   *)
(* on the camera handle (picam2) is one step, so the two threads           *)
(* interleave between device calls exactly as the unsynchronised code      *)
(* lets them.  The camera library and the GPIO library are collaborators   *)
(* outside the repository: a device call either takes effect or raises,    *)
(* and the GPIO service honours the bouncetime it is registered with.      *)
(*                                                                         *)
(*   Spec     the program: main() with the button thread beside it         *)
(*   SpecApi  a sequential client of the class that calls start_preview,   *)
(*            stop_preview, capture_photo and cleanup in any order, with   *)
(*            any preview / still sizes                                    *)
(***************************************************************************)
EXTENDS Integers, Sequences, FiniteSets, TLC

\* ------------------------------------------------------------- bounds
MaxFailures == 1       \* device calls that may raise in one run
MaxTicks == 4          \* the clock stops advancing here
TicksPerSecond == 2    \* clock granularity
MaxPending == 1        \* callbacks queued behind a running callback
MaxCaptures == 2       \* capture_photo calls in one run

\* ---------------------------------------------------- program constants
BounceTimeMs == 300    \* bouncetime=300 of add_event_detect
SettleSeconds == 1     \* time.sleep(1)

TickMs == 1000 \div TicksPerSecond

DefaultPreviewSize == <<1640, 1232>>
DefaultStillSize == <<4056, 3040>>
LoresSize == <<640, 480>>
Sizes == {DefaultPreviewSize, DefaultStillSize}

Threads == {"main", "button"}
None == "None"
NoFile == -1           \* capture_photo's "return None": no file name
NoConfig == [kind |-> "none", size |-> <<0, 0>>]

VARIABLES
    mode,            \* "program" (main() runs) or "api" (a client calls the class)
    pc,              \* pc[t]: where thread t stands
    ret,             \* where the foreground thread goes when the method it is in returns
    preview_size,    \* self.preview_size
    still_size,      \* self.still_size
    picam2,          \* self.picam2: None or "handle"
    is_running,      \* self.is_running
    preview_active,  \* self.preview_active
    devOpen,         \* camera device: the handle is open (not yet close()d)
    devStarted,      \* camera device: streaming (start() / stop())
    devPreview,      \* camera device: the preview window is shown
    devConfig,       \* camera device: the configuration last applied
    devFresh,        \* camera device: configured and not started since
    gpioRegistered,  \* GPIO: edge detection with the callback is registered
    lastcall,        \* GPIO: clock tick of the last accepted edge, -1 if none
    pending,         \* GPIO: callbacks accepted and not yet started
    now,             \* the clock, in ticks of TickMs milliseconds
    files,           \* the photos directory: the timestamps of the files in it
    filename,        \* capture_photo's local, per thread
    needs_switch,    \* capture_photo's needs_config_switch, per thread
    was_preview,     \* capture_photo's was_preview_active, per thread
    wake,            \* per thread: the tick its time.sleep(1) ends at, -1 if awake
    result,          \* per thread: what the last capture_photo returned
    failures,        \* device calls that raised so far
    exitStatus,      \* the process's exit status once main() has returned, else -1
    hist             \* history of the run, read by the properties only

vars == <<mode, pc, ret, preview_size, still_size, picam2, is_running,
          preview_active, devOpen, devStarted, devPreview, devConfig, devFresh,
          gpioRegistered, lastcall, pending, now, files, filename,
          needs_switch, was_preview, wake, result, failures, exitStatus, hist>>

ctrlVars == <<preview_size, still_size, picam2, is_running, preview_active>>
devVars == <<devOpen, devStarted, devPreview, devConfig, devFresh>>
gpioVars == <<gpioRegistered, lastcall, pending>>
capLocals == <<filename, needs_switch, was_preview, wake, result>>

\* ------------------------------------------------------------ profiles
\* _initialize_camera builds the two profiles from the sizes given to __init__.
PreviewConfig == [kind |-> "preview", size |-> preview_size]
StillConfig == [kind |-> "still", size |-> still_size]

\* A variant of Timestamp: strftime("%Y%m%d_%H%M"), the clock cut to whole minutes.
TimestampMinutes(t) == (t * TickMs) \div 60000

\* strftime("%Y%m%d_%H%M%S") of datetime.now(): the clock cut to whole seconds.
Timestamp(t) == (t * TickMs) \div 1000

\* f"{self.photos_dir}/photo_{timestamp}.jpg": one name per timestamp.
PhotoName(t) == Timestamp(t)

\* ------------------------------------------------------------- history
NoCapture == [start |-> -1, name |-> NoFile, wrote |-> FALSE]

HistInit ==
    [gpioFailed |-> FALSE,        \* _setup_gpio caught an exception
     camInitFailed |-> FALSE,     \* _initialize_camera raised
     loopEntered |-> FALSE,       \* the command loop read a command
     startFailed |-> FALSE,       \* run_interactive_mode's start_preview raised
     quit |-> FALSE,              \* the loop received 'q' or a KeyboardInterrupt
     cleaned |-> FALSE,           \* cleanup was invoked
     captures |-> 0,              \* capture_photo calls made
     entry |-> [t \in Threads |-> [pa |-> FALSE, cfg |-> NoConfig]],
                                  \* preview_active and devConfig when t's
                                  \* capture_photo began
     callFailed |-> [t \in Threads |-> FALSE],
                                  \* an exception was raised in t's current call
     shots |-> [t \in Threads |-> 0],
                                  \* capture_file calls issued in t's current call
     lastTwo |-> <<NoCapture, NoCapture>>,
                                  \* the client's last two capture_photo calls:
                                  \* the tick each began at, its file name, and
                                  \* whether its capture_file wrote the file
     overwrote |-> FALSE,         \* a capture_file wrote over an existing photo
     closedInFlight |-> FALSE,    \* close() ran while a capture_photo was in flight
     op |-> "none",               \* the method the foreground thread is in / was last in
     ops |-> 0,                   \* device calls it issued in that method call
     prev |-> [op |-> "none", failed |-> TRUE, obs |-> <<>>],
                                  \* the foreground thread's previous method call:
                                  \* whether it raised, the state it left
     edge |-> [pair |-> "none", caps |-> 0, skipped |-> FALSE]
                                  \* the bounce window opened by the last accepted
                                  \* edge (at lastcall): what became of a later
                                  \* edge inside it ("one": dropped, "both":
                                  \* accepted too), the capture_photo calls its
                                  \* callback made, and whether its callback found
                                  \* is_running false or was lost to GPIO.cleanup()
    ]

\* The state a caller can observe after start_preview / stop_preview.
Observable == <<preview_active, is_running, devConfig, devStarted, devPreview>>

\* ----------------------------------------------------------- the device
\* The camera service (picamera2), seen through the calls the class makes.
DevConfigure(config) ==
    /\ devConfig' = config
    /\ devFresh' = TRUE
    /\ UNCHANGED <<devOpen, devStarted, devPreview>>

DevStart ==
    /\ devStarted' = TRUE
    /\ devFresh' = FALSE
    /\ UNCHANGED <<devOpen, devPreview, devConfig>>

DevStop ==
    /\ devStarted' = FALSE
    /\ UNCHANGED <<devOpen, devPreview, devConfig, devFresh>>

DevStartPreview ==
    /\ devPreview' = TRUE
    /\ UNCHANGED <<devOpen, devStarted, devConfig, devFresh>>

DevStopPreview ==
    /\ devPreview' = FALSE
    /\ UNCHANGED <<devOpen, devStarted, devConfig, devFresh>>

DevClose ==
    /\ devOpen' = FALSE
    /\ devStarted' = FALSE
    /\ devPreview' = FALSE
    /\ UNCHANGED <<devConfig, devFresh>>

\* The history of one device call by thread t.
NoteCall(t, failed) ==
    [hist EXCEPT !.ops = IF t = "main" /\ mode = "api" THEN @ + 1 ELSE @,
                 !.callFailed[t] = @ \/ failed]

\* Thread t issues a device call: it takes effect and t goes on at okpc, or it
\* raises and t goes to its handler at failpc.  A call on a closed handle raises.
DevCall(t, effect, okpc, failpc) ==
    \/ /\ devOpen
       /\ effect
       /\ pc' = [pc EXCEPT ![t] = okpc]
       /\ hist' = NoteCall(t, FALSE)
       /\ UNCHANGED failures
    \/ /\ devOpen => failures < MaxFailures
       /\ failures' = IF devOpen THEN failures + 1 ELSE failures
       /\ pc' = [pc EXCEPT ![t] = failpc]
       /\ hist' = NoteCall(t, TRUE)
       /\ UNCHANGED devVars

\* ---------------------------------------------------------------- Init
InitCommon ==
    /\ pc = [t \in Threads |-> IF t = "main" THEN "m_gpio" ELSE "idle"]
    /\ ret = "none"
    /\ picam2 = None
    /\ is_running = FALSE
    /\ preview_active = FALSE
    /\ devOpen = FALSE
    /\ devStarted = FALSE
    /\ devPreview = FALSE
    /\ devConfig = NoConfig
    /\ devFresh = FALSE
    /\ gpioRegistered = FALSE
    /\ lastcall = -1
    /\ pending = <<>>
    /\ now = 0
    /\ files = {}
    /\ filename = [t \in Threads |-> NoFile]
    /\ needs_switch = [t \in Threads |-> FALSE]
    /\ was_preview = [t \in Threads |-> FALSE]
    /\ wake = [t \in Threads |-> -1]
    /\ result = [t \in Threads |-> NoFile]
    /\ failures = 0
    /\ exitStatus = -1
    /\ hist = HistInit

\* main(): PiCameraController(button_pin=0), the default sizes.
Init ==
    /\ mode = "program"
    /\ preview_size = DefaultPreviewSize
    /\ still_size = DefaultStillSize
    /\ InitCommon

\* A client constructs the controller with sizes of its choice.
InitApi ==
    /\ mode = "api"
    /\ preview_size \in Sizes
    /\ still_size \in Sizes
    /\ InitCommon

Goto(t, p) == pc' = [pc EXCEPT ![t] = p]

\* The clock: time passes unobserved until somebody reads it, so the time that
\* has passed is added where datetime.now() or the GPIO service reads the clock.
Elapse == \E d \in 0..(MaxTicks - now) : now' = now + d

\* The foreground thread enters method op: the history keeps how its previous
\* method call ended.
BeginCall(h, op) ==
    [h EXCEPT !.prev = [op |-> h.op, failed |-> h.callFailed["main"],
                        obs |-> Observable],
              !.op = op,
              !.ops = 0,
              !.callFailed["main"] = FALSE]

\* --------------------------------------------------------- start_preview
\* A variant of SpCheck: start_preview without the "if not self.preview_active".
SpCheckUnguarded ==
    /\ pc["main"] = "sp_check"
    /\ Goto("main", "sp_conf")
    /\ UNCHANGED <<mode, ret, ctrlVars, devVars, gpioVars, now, files,
                   capLocals, failures, exitStatus, hist>>

\* if not self.preview_active: ... else: print("Preview already active")
SpCheck ==
    /\ pc["main"] = "sp_check"
    /\ IF ~preview_active THEN Goto("main", "sp_conf") ELSE Goto("main", ret)
    /\ UNCHANGED <<mode, ret, ctrlVars, devVars, gpioVars, now, files,
                   capLocals, failures, exitStatus, hist>>

\* self.picam2.configure(self.preview_config)
SpConfigure ==
    /\ pc["main"] = "sp_conf"
    /\ DevCall("main", DevConfigure(PreviewConfig), "sp_prev", "sp_except")
    /\ UNCHANGED <<mode, ret, ctrlVars, gpioVars, now, files, capLocals, exitStatus>>

\* self.picam2.start_preview(Preview.QTGL)
SpStartPreview ==
    /\ pc["main"] = "sp_prev"
    /\ DevCall("main", DevStartPreview, "sp_start", "sp_except")
    /\ UNCHANGED <<mode, ret, ctrlVars, gpioVars, now, files, capLocals, exitStatus>>

\* self.picam2.start()
SpStart ==
    /\ pc["main"] = "sp_start"
    /\ DevCall("main", DevStart, "sp_flags", "sp_except")
    /\ UNCHANGED <<mode, ret, ctrlVars, gpioVars, now, files, capLocals, exitStatus>>

\* self.preview_active = True; self.is_running = True
SpFlags ==
    /\ pc["main"] = "sp_flags"
    /\ preview_active' = TRUE
    /\ is_running' = TRUE
    /\ Goto("main", ret)
    /\ UNCHANGED <<mode, ret, preview_size, still_size, picam2, devVars, gpioVars,
                   now, files, capLocals, failures, exitStatus, hist>>

\* A variant of SpExcept: the handler of start_preview marks the session as
\* running all the same.
SpExceptKeepsRunning ==
    /\ pc["main"] = "sp_except"
    /\ is_running' = TRUE
    /\ Goto("main", ret)
    /\ hist' = [hist EXCEPT !.startFailed = @ \/ mode = "program"]
    /\ UNCHANGED <<mode, ret, preview_size, still_size, picam2, preview_active,
                   devVars, gpioVars, now, files, capLocals, failures, exitStatus>>

\* except Exception as e: print(f"Error starting preview: {e}")
SpExcept ==
    /\ pc["main"] = "sp_except"
    /\ Goto("main", ret)
    /\ hist' = [hist EXCEPT !.startFailed = @ \/ mode = "program"]
    /\ UNCHANGED <<mode, ret, ctrlVars, devVars, gpioVars, now, files,
                   capLocals, failures, exitStatus>>

\* ---------------------------------------------------------- stop_preview
\* if self.preview_active: ... else: print("Preview not active")
StpCheck ==
    /\ pc["main"] = "stp_check"
    /\ IF preview_active THEN Goto("main", "stp_prev") ELSE Goto("main", ret)
    /\ UNCHANGED <<mode, ret, ctrlVars, devVars, gpioVars, now, files,
                   capLocals, failures, exitStatus, hist>>

\* self.picam2.stop_preview()
StpStopPreview ==
    /\ pc["main"] = "stp_prev"
    /\ DevCall("main", DevStopPreview, "stp_stop", "stp_except")
    /\ UNCHANGED <<mode, ret, ctrlVars, gpioVars, now, files, capLocals, exitStatus>>

\* self.picam2.stop()
StpStop ==
    /\ pc["main"] = "stp_stop"
    /\ DevCall("main", DevStop, "stp_flag", "stp_except")
    /\ UNCHANGED <<mode, ret, ctrlVars, gpioVars, now, files, capLocals, exitStatus>>

\* self.preview_active = False
StpFlag ==
    /\ pc["main"] = "stp_flag"
    /\ preview_active' = FALSE
    /\ Goto("main", ret)
    /\ UNCHANGED <<mode, ret, preview_size, still_size, picam2, is_running, devVars,
                   gpioVars, now, files, capLocals, failures, exitStatus, hist>>

\* A variant of StpExcept: the handler of stop_preview gives the preview up.
StpExceptClearsFlag ==
    /\ pc["main"] = "stp_except"
    /\ preview_active' = FALSE
    /\ Goto("main", ret)
    /\ UNCHANGED <<mode, ret, preview_size, still_size, picam2, is_running, devVars,
                   gpioVars, now, files, capLocals, failures, exitStatus, hist>>

\* except Exception as e: print(f"Error stopping preview: {e}")
StpExcept ==
    /\ pc["main"] = "stp_except"
    /\ Goto("main", ret)
    /\ UNCHANGED <<mode, ret, ctrlVars, devVars, gpioVars, now, files,
                   capLocals, failures, exitStatus, hist>>

\* --------------------------------------------------------- capture_photo
capRest == <<mode, ret, ctrlVars, gpioVars, now, files, exitStatus>>

InCapture(t) ==
    pc[t] \in {"cap_name", "cap_cfg", "cap_stop_prev1", "cap_stop1", "cap_conf_still",
               "cap_start1", "cap_start_prev1", "cap_sleep", "cap_wake", "cap_file",
               "cap_back", "cap_stop2", "cap_conf_prev", "cap_start_prev2",
               "cap_start2", "cap_exists", "cap_except", "cap_ret"}

\* Thread t has issued the first device call of its mode switch (the stop) and
\* has not yet issued the last call of the sequence.
InTransition(t) ==
    /\ needs_switch[t]
    /\ pc[t] \in {"cap_conf_still", "cap_start1", "cap_start_prev1", "cap_sleep",
                  "cap_wake", "cap_file", "cap_stop2", "cap_conf_prev",
                  "cap_start_prev2", "cap_start2"}

\* timestamp = datetime.now().strftime(...); filename = f"{photos_dir}/photo_{timestamp}.jpg"
CapName(t) ==
    /\ pc[t] = "cap_name"
    /\ Elapse
    /\ filename' = [filename EXCEPT ![t] = PhotoName(now')]
    /\ hist' = [hist EXCEPT
                  !.entry[t] = [pa |-> preview_active, cfg |-> devConfig],
                  !.callFailed[t] = FALSE,
                  !.shots[t] = 0,
                  !.lastTwo = IF mode = "api"
                              THEN <<@[2], [start |-> now', name |-> PhotoName(now'),
                                            wrote |-> FALSE]>>
                              ELSE @]
    /\ Goto(t, "cap_cfg")
    /\ UNCHANGED <<mode, ret, ctrlVars, devVars, gpioVars, files,
                   needs_switch, was_preview, wake, result, failures, exitStatus>>

\* current_config = self.picam2.camera_configuration()
\* needs_config_switch = current_config['main']['size'] != self.still_config['main']['size']
\* (subscripting the configuration of an unconfigured camera raises)
CapConfig(t) ==
    /\ pc[t] = "cap_cfg"
    /\ IF devConfig = NoConfig
       THEN /\ Goto(t, "cap_except")
            /\ hist' = [hist EXCEPT !.callFailed[t] = TRUE]
            /\ UNCHANGED needs_switch
       ELSE /\ needs_switch' = [needs_switch EXCEPT ![t] = devConfig.size # StillConfig.size]
            /\ Goto(t, IF devConfig.size # StillConfig.size THEN "cap_stop_prev1" ELSE "cap_file")
            /\ UNCHANGED hist
    /\ UNCHANGED <<capRest, devVars, filename, was_preview, wake, result, failures>>

\* A variant of CapStopPreview1: the preview is stopped the way stop_preview
\* stops it, the flag is cleared too.
CapStopPreview1ClearsFlag(t) ==
    /\ pc[t] = "cap_stop_prev1"
    /\ was_preview' = [was_preview EXCEPT ![t] = preview_active]
    /\ preview_active' = FALSE
    /\ IF preview_active
       THEN DevCall(t, DevStopPreview, "cap_stop1", "cap_except")
       ELSE Goto(t, "cap_stop1") /\ UNCHANGED <<devVars, failures, hist>>
    /\ UNCHANGED <<mode, ret, preview_size, still_size, picam2, is_running, gpioVars,
                   now, files, exitStatus, filename, needs_switch, wake, result>>

\* was_preview_active = self.preview_active
\* if self.preview_active: self.picam2.stop_preview()
CapStopPreview1(t) ==
    /\ pc[t] = "cap_stop_prev1"
    /\ was_preview' = [was_preview EXCEPT ![t] = preview_active]
    /\ IF preview_active
       THEN DevCall(t, DevStopPreview, "cap_stop1", "cap_except")
       ELSE Goto(t, "cap_stop1") /\ UNCHANGED <<devVars, failures, hist>>
    /\ UNCHANGED <<capRest, filename, needs_switch, wake, result>>

\* self.picam2.stop()
CapStop1(t) ==
    /\ pc[t] = "cap_stop1"
    /\ DevCall(t, DevStop, "cap_conf_still", "cap_except")
    /\ UNCHANGED <<capRest, capLocals>>

\* A variant of CapConfigureStill: the capture is configured with the size of
\* the preview profile's auxiliary stream.
CapConfigureLores(t) ==
    /\ pc[t] = "cap_conf_still"
    /\ DevCall(t, DevConfigure([kind |-> "still", size |-> LoresSize]),
               "cap_start1", "cap_except")
    /\ UNCHANGED <<capRest, capLocals>>

\* self.picam2.configure(self.still_config)
CapConfigureStill(t) ==
    /\ pc[t] = "cap_conf_still"
    /\ DevCall(t, DevConfigure(StillConfig), "cap_start1", "cap_except")
    /\ UNCHANGED <<capRest, capLocals>>

\* self.picam2.start()
CapStart1(t) ==
    /\ pc[t] = "cap_start1"
    /\ DevCall(t, DevStart, "cap_start_prev1", "cap_except")
    /\ UNCHANGED <<capRest, capLocals>>

\* A variant of CapStartPreview1: the preview window is started after the switch
\* whether or not it was shown before.
CapStartPreview1Always(t) ==
    /\ pc[t] = "cap_start_prev1"
    /\ DevCall(t, DevStartPreview, "cap_sleep", "cap_except")
    /\ UNCHANGED <<capRest, capLocals>>

\* A variant of CapStartPreview1: capture_photo without the time.sleep(1).
CapStartPreview1NoSleep(t) ==
    /\ pc[t] = "cap_start_prev1"
    /\ IF was_preview[t]
       THEN DevCall(t, DevStartPreview, "cap_file", "cap_except")
       ELSE Goto(t, "cap_file") /\ UNCHANGED <<devVars, failures, hist>>
    /\ UNCHANGED <<capRest, capLocals>>

\* if was_preview_active: self.picam2.start_preview(Preview.QTGL)
CapStartPreview1(t) ==
    /\ pc[t] = "cap_start_prev1"
    /\ IF was_preview[t]
       THEN DevCall(t, DevStartPreview, "cap_sleep", "cap_except")
       ELSE Goto(t, "cap_sleep") /\ UNCHANGED <<devVars, failures, hist>>
    /\ UNCHANGED <<capRest, capLocals>>

\* time.sleep(1)  # Allow camera to adjust: the thread goes to sleep ...
CapSleep(t) ==
    /\ pc[t] = "cap_sleep"
    /\ now + SettleSeconds * TicksPerSecond <= MaxTicks
    /\ wake' = [wake EXCEPT ![t] = now + SettleSeconds * TicksPerSecond]
    /\ Goto(t, "cap_wake")
    /\ UNCHANGED <<capRest, devVars, filename, needs_switch, was_preview, result,
                   failures, hist>>

\* ... and wakes up when the second has passed
CapWake(t) ==
    /\ pc[t] = "cap_wake"
    /\ now' = IF now < wake[t] THEN wake[t] ELSE now
    /\ wake' = [wake EXCEPT ![t] = -1]
    /\ Goto(t, "cap_file")
    /\ UNCHANGED <<mode, ret, ctrlVars, devVars, gpioVars, files, filename,
                   needs_switch, was_preview, result, failures, exitStatus, hist>>

\* self.picam2.capture_file(filename): the file is written, or the call returns
\* without a file, or it raises.
CapFile(t) ==
    /\ pc[t] = "cap_file"
    /\ \/ /\ devOpen
          /\ files' = files \cup {filename[t]}
          /\ hist' = [hist EXCEPT !.shots[t] = @ + 1,
                                  !.ops = IF t = "main" /\ mode = "api" THEN @ + 1 ELSE @,
                                  !.lastTwo[2].wrote = @ \/ mode = "api",
                                  !.overwrote = @ \/ filename[t] \in files]
          /\ Goto(t, "cap_back")
          /\ UNCHANGED failures
       \/ /\ devOpen
          /\ failures < MaxFailures
          /\ failures' = failures + 1
          /\ hist' = [hist EXCEPT !.shots[t] = @ + 1,
                                  !.ops = IF t = "main" /\ mode = "api" THEN @ + 1 ELSE @,
                                  !.callFailed[t] = TRUE]
          /\ Goto(t, "cap_back")
          /\ UNCHANGED files
       \/ /\ devOpen => failures < MaxFailures
          /\ failures' = IF devOpen THEN failures + 1 ELSE failures
          /\ hist' = [hist EXCEPT !.shots[t] = @ + 1,
                                  !.ops = IF t = "main" /\ mode = "api" THEN @ + 1 ELSE @,
                                  !.callFailed[t] = TRUE]
          /\ Goto(t, "cap_except")
          /\ UNCHANGED files
    /\ UNCHANGED <<mode, ret, ctrlVars, devVars, gpioVars, now, capLocals, exitStatus>>

\* A variant of CapBack: capture_photo without the switch back to the preview.
CapBackNever(t) ==
    /\ pc[t] = "cap_back"
    /\ Goto(t, "cap_exists")
    /\ UNCHANGED <<devVars, failures, hist>>
    /\ UNCHANGED <<capRest, capLocals>>

\* if needs_config_switch and self.preview_active: self.picam2.stop_preview()
CapBack(t) ==
    /\ pc[t] = "cap_back"
    /\ IF needs_switch[t] /\ preview_active
       THEN DevCall(t, DevStopPreview, "cap_stop2", "cap_except")
       ELSE Goto(t, "cap_exists") /\ UNCHANGED <<devVars, failures, hist>>
    /\ UNCHANGED <<capRest, capLocals>>

\* self.picam2.stop()
CapStop2(t) ==
    /\ pc[t] = "cap_stop2"
    /\ DevCall(t, DevStop, "cap_conf_prev", "cap_except")
    /\ UNCHANGED <<capRest, capLocals>>

\* self.picam2.configure(self.preview_config)
CapConfigurePreview(t) ==
    /\ pc[t] = "cap_conf_prev"
    /\ DevCall(t, DevConfigure(PreviewConfig), "cap_start_prev2", "cap_except")
    /\ UNCHANGED <<capRest, capLocals>>

\* self.picam2.start_preview(Preview.QTGL)
CapStartPreview2(t) ==
    /\ pc[t] = "cap_start_prev2"
    /\ DevCall(t, DevStartPreview, "cap_start2", "cap_except")
    /\ UNCHANGED <<capRest, capLocals>>

\* self.picam2.start()
CapStart2(t) ==
    /\ pc[t] = "cap_start2"
    /\ DevCall(t, DevStart, "cap_exists", "cap_except")
    /\ UNCHANGED <<capRest, capLocals>>

\* if os.path.exists(filename): return filename  else: return None
CapExists(t) ==
    /\ pc[t] = "cap_exists"
    /\ result' = [result EXCEPT ![t] = IF filename[t] \in files THEN filename[t] ELSE NoFile]
    /\ Goto(t, "cap_ret")
    /\ UNCHANGED <<capRest, devVars, filename, needs_switch, was_preview, wake, failures, hist>>

\* except Exception as e: print(f"Error capturing photo: {e}"); return None
CapExcept(t) ==
    /\ pc[t] = "cap_except"
    /\ result' = [result EXCEPT ![t] = NoFile]
    /\ Goto(t, "cap_ret")
    /\ UNCHANGED <<capRest, devVars, filename, needs_switch, was_preview, wake, failures, hist>>

\* capture_photo returns to its caller: the command loop or the client for the
\* foreground thread, _button_pressed for the callback.
CapReturn(t) ==
    /\ pc[t] = "cap_ret"
    /\ Goto(t, IF t = "main" THEN ret ELSE "bp_ret")
    /\ filename' = [filename EXCEPT ![t] = NoFile]
    /\ needs_switch' = [needs_switch EXCEPT ![t] = FALSE]
    /\ was_preview' = [was_preview EXCEPT ![t] = FALSE]
    /\ result' = [result EXCEPT ![t] = IF mode = "program" THEN @ ELSE NoFile]
    /\ hist' = [hist EXCEPT !.entry[t] = [pa |-> FALSE, cfg |-> NoConfig],
                            !.callFailed[t] = FALSE,
                            !.shots[t] = 0]
    /\ UNCHANGED <<capRest, devVars, wake, failures>>

\* ------------------------------------------------------------- __init__
\* A variant of EdgeAccepted: add_event_detect without bouncetime.
EdgeAcceptedAlways(at) == at >= 0

\* bouncetime=300: the GPIO service passes an edge on when none was accepted
\* before or the last accepted one lies more than the bounce time back.
EdgeAccepted(at) ==
    \/ lastcall = -1
    \/ (at - lastcall) * TickMs > BounceTimeMs

\* A variant of SetupGpio: _setup_gpio re-raises as _initialize_camera does, so
\* main() prints the error and returns.
SetupGpioFatal ==
    /\ pc["main"] = "m_gpio"
    /\ \/ /\ gpioRegistered' = TRUE
          /\ Goto("main", "m_caminit")
          /\ UNCHANGED <<hist, exitStatus>>
       \/ /\ gpioRegistered' = FALSE
          /\ hist' = [hist EXCEPT !.gpioFailed = TRUE]
          /\ Goto("main", "m_returned")
          /\ exitStatus' = IF mode = "program" THEN 0 ELSE exitStatus
    /\ UNCHANGED <<mode, ret, ctrlVars, devVars, lastcall, pending, now, files,
                   capLocals, failures>>

\* _setup_gpio: setmode, setup, add_event_detect(pin, FALLING, callback, bouncetime);
\* except Exception: print("Button functionality will not be available")
SetupGpio ==
    /\ pc["main"] = "m_gpio"
    /\ \/ /\ gpioRegistered' = TRUE
          /\ UNCHANGED hist
       \/ /\ gpioRegistered' = FALSE
          /\ hist' = [hist EXCEPT !.gpioFailed = TRUE]
    /\ Goto("main", "m_caminit")
    /\ UNCHANGED <<mode, ret, ctrlVars, devVars, lastcall, pending, now, files,
                   capLocals, failures, exitStatus>>

\* _initialize_camera: self.picam2 = Picamera2(); the two profiles are built;
\* except Exception: raise.  The exception leaves __init__, so main() holds no
\* controller: its except Exception prints, its finally skips cleanup (camera is
\* None) and main() returns; the script ends normally.
InitializeCamera ==
    /\ pc["main"] = "m_caminit"
    /\ \/ /\ picam2' = "handle"
          /\ devOpen' = TRUE
          /\ Goto("main", IF mode = "program" THEN "m_run" ELSE "api")
          /\ UNCHANGED <<hist, exitStatus>>
       \/ /\ \E opened \in BOOLEAN :
                /\ devOpen' = opened
                /\ picam2' = IF opened THEN "handle" ELSE None
          /\ hist' = [hist EXCEPT !.camInitFailed = TRUE]
          /\ Goto("main", "m_returned")
          /\ exitStatus' = IF mode = "program" THEN 0 ELSE exitStatus
    /\ UNCHANGED <<mode, ret, preview_size, still_size, is_running, preview_active,
                   devStarted, devPreview, devConfig, devFresh, gpioVars, now,
                   files, capLocals, failures>>

\* ------------------------------------------------- run_interactive_mode
\* camera_info = self.get_camera_info() (printed); self.start_preview()
RunInteractiveMode ==
    /\ pc["main"] = "m_run"
    /\ Goto("main", "sp_check")
    /\ ret' = "m_while"
    /\ UNCHANGED <<mode, ctrlVars, devVars, gpioVars, now, files, capLocals,
                   failures, exitStatus, hist>>

\* while self.is_running: command = input(...)
LoopTest ==
    /\ pc["main"] = "m_while"
    /\ IF is_running
       THEN Goto("main", "m_input") /\ hist' = [hist EXCEPT !.loopEntered = TRUE]
       ELSE Goto("main", "cl_flag") /\ UNCHANGED hist
    /\ UNCHANGED <<mode, ret, ctrlVars, devVars, gpioVars, now, files, capLocals,
                   failures, exitStatus>>

\* if command == 'c': filename = self.capture_photo()
CommandCapture ==
    /\ pc["main"] = "m_input"
    /\ hist.captures < MaxCaptures
    /\ Goto("main", "cap_name")
    /\ ret' = "m_post"
    /\ hist' = [hist EXCEPT !.captures = @ + 1]
    /\ UNCHANGED <<mode, ctrlVars, devVars, gpioVars, now, files, capLocals,
                   failures, exitStatus>>

\* if filename:
PostProcess ==
    /\ pc["main"] = "m_post"
    /\ Goto("main", IF result["main"] # NoFile THEN "m_apply" ELSE "m_while")
    /\ UNCHANGED result
    /\ UNCHANGED <<mode, ret, ctrlVars, devVars, gpioVars, now, files, filename,
                   needs_switch, was_preview, wake, failures, exitStatus, hist>>

\* self.apply_post_processing(filename): prints and returns the path unchanged;
\* the loop drops the returned path
ApplyPostProcessing ==
    /\ pc["main"] = "m_apply"
    /\ Goto("main", "m_while")
    /\ result' = [result EXCEPT !["main"] = NoFile]
    /\ UNCHANGED <<mode, ret, ctrlVars, devVars, gpioVars, now, files, filename,
                   needs_switch, was_preview, wake, failures, exitStatus, hist>>

\* elif command == 's': self._show_status()
CommandStatus ==
    /\ pc["main"] = "m_input"
    /\ Goto("main", "m_while")
    /\ UNCHANGED <<mode, ret, ctrlVars, devVars, gpioVars, now, files, capLocals,
                   failures, exitStatus, hist>>

\* A variant of CommandQuit: 'q' prints "Quitting..." and the loop goes on.
CommandQuitIgnored ==
    /\ pc["main"] = "m_input"
    /\ Goto("main", "m_while")
    /\ hist' = [hist EXCEPT !.quit = TRUE]
    /\ UNCHANGED <<mode, ret, ctrlVars, devVars, gpioVars, now, files, capLocals,
                   failures, exitStatus>>

\* elif command == 'q': self.is_running = False; break
CommandQuit ==
    /\ pc["main"] = "m_input"
    /\ is_running' = FALSE
    /\ Goto("main", "cl_flag")
    /\ hist' = [hist EXCEPT !.quit = TRUE]
    /\ UNCHANGED <<mode, ret, preview_size, still_size, picam2, preview_active,
                   devVars, gpioVars, now, files, capLocals, failures, exitStatus>>

\* A variant of CommandInvalid: an unrecognized command ends the loop.
CommandInvalidBreaks ==
    /\ pc["main"] = "m_input"
    /\ Goto("main", "cl_flag")
    /\ UNCHANGED <<mode, ret, ctrlVars, devVars, gpioVars, now, files, capLocals,
                   failures, exitStatus, hist>>

\* else: print("Invalid command. ...")
CommandInvalid ==
    /\ pc["main"] = "m_input"
    /\ Goto("main", "m_while")
    /\ UNCHANGED <<mode, ret, ctrlVars, devVars, gpioVars, now, files, capLocals,
                   failures, exitStatus, hist>>

\* except KeyboardInterrupt: self.is_running = False   (the interrupt reaches the
\* foreground thread where it waits: in input(), or in capture_photo's sleep,
\* whose except Exception does not catch it)
KeyboardInterrupt ==
    /\ mode = "program"
    /\ pc["main"] \in {"m_input", "cap_wake"}
    /\ wake' = [wake EXCEPT !["main"] = -1]
    /\ is_running' = FALSE
    /\ Goto("main", "cl_flag")
    /\ hist' = [hist EXCEPT !.quit = TRUE]
    /\ UNCHANGED <<mode, ret, preview_size, still_size, picam2, preview_active,
                   devVars, gpioVars, now, files, filename, needs_switch,
                   was_preview, result, failures, exitStatus>>

\* -------------------------------------------------------------- cleanup
\* self.is_running = False
CleanupFlag ==
    /\ pc["main"] = "cl_flag"
    /\ is_running' = FALSE
    /\ Goto("main", "cl_prev")
    /\ hist' = [hist EXCEPT !.cleaned = TRUE]
    /\ UNCHANGED <<mode, ret, preview_size, still_size, picam2, preview_active,
                   devVars, gpioVars, now, files, capLocals, failures, exitStatus>>

\* if self.preview_active: self.stop_preview()
CleanupPreview ==
    /\ pc["main"] = "cl_prev"
    /\ IF preview_active
       THEN Goto("main", "stp_check") /\ ret' = "cl_close"
       ELSE Goto("main", "cl_close") /\ UNCHANGED ret
    /\ UNCHANGED <<mode, ctrlVars, devVars, gpioVars, now, files, capLocals,
                   failures, exitStatus, hist>>

\* if self.picam2: self.picam2.close()
CleanupClose ==
    /\ pc["main"] = "cl_close"
    /\ IF picam2 = None
       THEN Goto("main", "cl_gpio") /\ UNCHANGED <<devVars, failures, hist>>
       ELSE \/ /\ DevClose
               /\ Goto("main", "cl_gpio")
               /\ hist' = [NoteCall("main", FALSE) EXCEPT
                                       !.closedInFlight = @ \/ (InCapture("button") /\ pc["button"] # "cap_ret")]
               /\ UNCHANGED failures
            \/ /\ devOpen => failures < MaxFailures
               /\ failures' = IF devOpen THEN failures + 1 ELSE failures
               /\ Goto("main", "cl_except")
               /\ hist' = NoteCall("main", TRUE)
               /\ UNCHANGED devVars
    /\ UNCHANGED <<mode, ret, ctrlVars, gpioVars, now, files, capLocals, exitStatus>>

\* GPIO.cleanup(): the edge detection is removed, callbacks not yet started are lost
CleanupGpio ==
    /\ pc["main"] = "cl_gpio"
    /\ gpioRegistered' = FALSE
    /\ pending' = <<>>
    /\ hist' = [hist EXCEPT !.edge.skipped = @ \/ (pending # <<>>)]
    /\ Goto("main", "cl_end")
    /\ UNCHANGED <<mode, ret, ctrlVars, devVars, lastcall, now, files, capLocals,
                   failures, exitStatus>>

\* except Exception as e: print(f"Error during cleanup: {e}")
CleanupExcept ==
    /\ pc["main"] = "cl_except"
    /\ Goto("main", "cl_end")
    /\ UNCHANGED <<mode, ret, ctrlVars, devVars, gpioVars, now, files, capLocals,
                   failures, exitStatus, hist>>

\* cleanup returns: main() returns and the script ends (status 0), or the client
\* goes on.
CleanupReturn ==
    /\ pc["main"] = "cl_end"
    /\ Goto("main", IF mode = "program" THEN "m_returned" ELSE "api")
    /\ exitStatus' = IF mode = "program" THEN 0 ELSE exitStatus
    /\ UNCHANGED <<mode, ret, ctrlVars, devVars, gpioVars, now, files, capLocals,
                   failures, hist>>

\* ------------------------------------------------------ the button thread
\* A falling edge on the pin.  The GPIO service drops it when no detection is
\* registered or when it falls in the bounce time of the last accepted edge;
\* an accepted edge's callback runs on the service's thread, after the
\* callbacks accepted before it.
RawEdge ==
    /\ mode = "program"
    /\ pc["main"] # "m_gpio"
    /\ Elapse
    /\ LET accepted == gpioRegistered /\ EdgeAccepted(now')
           inWindow == /\ lastcall # -1
                       /\ (now' - lastcall) * TickMs <= BounceTimeMs
       IN  /\ accepted => Len(pending) < MaxPending
           /\ lastcall' = IF accepted THEN now' ELSE lastcall
           /\ pending' = IF accepted THEN Append(pending, now') ELSE pending
           /\ hist' = [hist EXCEPT
                         !.edge = IF inWindow
                                  THEN [@ EXCEPT !.pair = IF accepted THEN "both"
                                                          ELSE "one"]
                                  ELSE IF accepted
                                  THEN [pair |-> "none", caps |-> 0, skipped |-> FALSE]
                                  ELSE @]
    /\ UNCHANGED <<mode, pc, ret, ctrlVars, devVars, gpioRegistered, files,
                   capLocals, failures, exitStatus>>

\* _button_pressed(channel): if self.is_running: print("Button pressed ...")
\* (the capture_photo call the callback is now bound to make is counted here)
ButtonPressed ==
    /\ pc["button"] = "idle"
    /\ pending # <<>>
    /\ pending' = Tail(pending)
    /\ LET mine == Head(pending) = lastcall
       IN  IF is_running
           THEN /\ hist.captures < MaxCaptures
                /\ Goto("button", "bp_call")
                /\ hist' = [hist EXCEPT
                              !.captures = @ + 1,
                              !.edge.caps = IF mine THEN @ + 1 ELSE @]
           ELSE /\ UNCHANGED pc
                /\ hist' = [hist EXCEPT !.edge.skipped = @ \/ mine]
    /\ UNCHANGED <<mode, ret, ctrlVars, devVars, gpioRegistered, lastcall, now, files,
                   capLocals, failures, exitStatus>>

\* self.capture_photo(), called by _button_pressed after its test and its print;
\* nothing keeps the foreground thread from running in between.
ButtonCall ==
    /\ pc["button"] = "bp_call"
    /\ Goto("button", "cap_name")
    /\ UNCHANGED <<mode, ret, ctrlVars, devVars, gpioVars, now, files, capLocals,
                   failures, exitStatus, hist>>

\* _button_pressed returns to the GPIO library: what capture_photo returned is
\* dropped
ButtonReturn ==
    /\ pc["button"] = "bp_ret"
    /\ Goto("button", "idle")
    /\ result' = [result EXCEPT !["button"] = NoFile]
    /\ UNCHANGED <<mode, ret, ctrlVars, devVars, gpioVars, now, files, filename,
                   needs_switch, was_preview, wake, failures, exitStatus, hist>>

\* ------------------------------------------------ a client of the class
ApiStartPreview ==
    /\ mode = "api" /\ pc["main"] = "api"
    /\ Goto("main", "sp_check")
    /\ ret' = "api"
    /\ hist' = BeginCall(hist, "start_preview")
    /\ UNCHANGED <<mode, ctrlVars, devVars, gpioVars, now, files, capLocals,
                   failures, exitStatus>>

ApiStopPreview ==
    /\ mode = "api" /\ pc["main"] = "api"
    /\ Goto("main", "stp_check")
    /\ ret' = "api"
    /\ hist' = BeginCall(hist, "stop_preview")
    /\ UNCHANGED <<mode, ctrlVars, devVars, gpioVars, now, files, capLocals,
                   failures, exitStatus>>

ApiCapturePhoto ==
    /\ mode = "api" /\ pc["main"] = "api"
    /\ hist.captures < MaxCaptures
    /\ Goto("main", "cap_name")
    /\ ret' = "api"
    /\ hist' = [BeginCall(hist, "capture_photo") EXCEPT !.captures = @ + 1]
    /\ UNCHANGED <<mode, ctrlVars, devVars, gpioVars, now, files, capLocals,
                   failures, exitStatus>>

ApiCleanup ==
    /\ mode = "api" /\ pc["main"] = "api"
    /\ Goto("main", "cl_flag")
    /\ hist' = BeginCall(hist, "cleanup")
    /\ UNCHANGED <<mode, ret, ctrlVars, devVars, gpioVars, now, files, capLocals,
                   failures, exitStatus>>

\* ------------------------------------------------------- specifications
Methods ==
    \/ SpCheck \/ SpConfigure \/ SpStartPreview \/ SpStart \/ SpFlags \/ SpExcept
    \/ StpCheck \/ StpStopPreview \/ StpStop \/ StpFlag \/ StpExcept
    \/ CleanupFlag \/ CleanupPreview \/ CleanupClose \/ CleanupGpio
    \/ CleanupExcept \/ CleanupReturn

Capture(t) ==
    \/ CapName(t) \/ CapConfig(t) \/ CapStopPreview1(t) \/ CapStop1(t)
    \/ CapConfigureStill(t) \/ CapStart1(t) \/ CapStartPreview1(t) \/ CapSleep(t)
    \/ CapWake(t)
    \/ CapFile(t) \/ CapBack(t) \/ CapStop2(t) \/ CapConfigurePreview(t)
    \/ CapStartPreview2(t) \/ CapStart2(t) \/ CapExists(t) \/ CapExcept(t)
    \/ CapReturn(t)

Next ==
    \/ SetupGpio \/ InitializeCamera \/ RunInteractiveMode \/ LoopTest
    \/ CommandCapture \/ PostProcess \/ ApplyPostProcessing
    \/ CommandStatus \/ CommandQuit
    \/ CommandInvalid \/ KeyboardInterrupt
    \/ Methods
    \/ \E t \in Threads : Capture(t)
    \/ RawEdge \/ ButtonPressed \/ ButtonCall \/ ButtonReturn

Spec == Init /\ [][Next]_vars

NextApi ==
    \/ SetupGpio \/ InitializeCamera
    \/ ApiStartPreview \/ ApiStopPreview \/ ApiCapturePhoto \/ ApiCleanup
    \/ Methods
    \/ Capture("main")

SpecApi == InitApi /\ [][NextApi]_vars

\* ======================================================== the properties

\* C1.  (the claim as stated; the code takes no lock, so it fails)  When
\* capture_photo runs in the callback thread and in the foreground thread at
\* once, at most one of the two is inside its device-transition sequence (has
\* issued the first call of its mode switch and not yet the last), and the two
\* calls write to two distinct files.
C1_CapturesSerialized ==
    /\ ~(InTransition("main") /\ InTransition("button"))
    /\ (InCapture("main") /\ InCapture("button")
          /\ filename["main"] # NoFile /\ filename["button"] # NoFile)
       => filename["main"] # filename["button"]

\* C2.  (the claim as stated; cleanup waits for nothing, so it fails)  cleanup
\* never closes the camera handle while a capture_photo started by the button
\* callback is still in flight.
C2_CloseWaitsForCapture == ~hist.closedInFlight

\* ---- capture_photo called by a sequential client (SpecApi)
CapReturning == pc["main"] = "cap_ret"
CapEntry == hist.entry["main"]

\* C3.  For every capture_photo call made while the device is configured with
\* the preview profile, preview_active when the call returns is what it was
\* immediately before the call, whether the call succeeds or fails.
C3_PreviewFlagKept ==
    (CapReturning /\ CapEntry.cfg.kind = "preview")
        => preview_active = CapEntry.pa

C3_SwitchedWithPreviewOn ==
    /\ CapReturning
    /\ CapEntry.cfg.kind = "preview" /\ CapEntry.pa
    /\ needs_switch["main"]
    /\ preview_active

\* C4 (the claim as stated).  Every capture_photo call in which no device call
\* fails leaves the applied configuration equal to the one applied before the
\* call, with preview on and with preview off.
C4_ConfigRestored ==
    (CapReturning /\ ~hist.callFailed["main"]) => devConfig = CapEntry.cfg

\* C4 (amended).  A capture_photo call in which no device call fails leaves the
\* applied configuration as it was before the call when preview was on or when
\* the applied resolution already was the still resolution; when preview was
\* off and the applied resolution differed from the still resolution, it leaves
\* the device configured with the still profile.
C4_ConfigRestoredIfPreviewOn ==
    (CapReturning /\ ~hist.callFailed["main"])
        => IF CapEntry.cfg.size # still_size /\ ~CapEntry.pa
           THEN devConfig = StillConfig
           ELSE devConfig = CapEntry.cfg

C4_LeftInStill ==
    /\ CapReturning /\ ~hist.callFailed["main"]
    /\ CapEntry.cfg = PreviewConfig /\ ~CapEntry.pa
    /\ devConfig = StillConfig /\ devConfig # CapEntry.cfg

\* C5.  Whenever capture_photo has returned, with a path or with None, after any
\* sequence of start_preview, stop_preview and capture_photo calls, the
\* configuration applied to the device (if any was applied) has the resolution
\* of the preview profile or of the still profile.
C5_KnownResolution ==
    CapReturning => (devConfig = NoConfig \/ devConfig.size \in {preview_size, still_size})

C5_StillApplied ==
    /\ CapReturning
    /\ preview_size # still_size
    /\ CapEntry.cfg = PreviewConfig
    /\ devConfig = StillConfig

\* ---- start_preview / stop_preview called twice in a row (SpecApi)
SecondCallDone ==
    /\ mode = "api" /\ pc["main"] = "api"
    /\ hist.op \in {"start_preview", "stop_preview"}
    /\ hist.prev.op = hist.op

FirstShot == hist.lastTwo[1]
SecondShot == hist.lastTwo[2]
BothShot == FirstShot.start # -1 /\ SecondShot.start # -1

\* C7 (the claim as stated).  Two capture_photo calls started more than the
\* debounce window (300 ms) apart write to two distinct file names.
C7_DistinctAfterDebounce ==
    (BothShot /\ (SecondShot.start - FirstShot.start) * TickMs > BounceTimeMs)
        => FirstShot.name # SecondShot.name

\* C7 (amended).  Two capture_photo calls started in different whole seconds of
\* the clock, in particular any two started at least one second apart, write to
\* two distinct file names, and both photos exist once both were written; two
\* calls started in the same whole second write to the same file name.
C7_DistinctAcrossSeconds ==
    BothShot =>
        /\ ((FirstShot.start * TickMs) \div 1000 # (SecondShot.start * TickMs) \div 1000)
              <=> (FirstShot.name # SecondShot.name)
        /\ ((SecondShot.start - FirstShot.start) * TickMs >= 1000)
              => (FirstShot.name # SecondShot.name)
        /\ (FirstShot.wrote /\ SecondShot.wrote /\ FirstShot.name # SecondShot.name)
              => (Cardinality(files) >= 2 /\ {FirstShot.name, SecondShot.name} \subseteq files)

C7_TwoPhotos ==
    /\ BothShot
    /\ FirstShot.wrote /\ SecondShot.wrote
    /\ (SecondShot.start - FirstShot.start) * TickMs >= 1000
    /\ {FirstShot.name, SecondShot.name} \subseteq files
    /\ Cardinality(files) >= 2

C9_CameraFailureIsFatal ==
    /\ hist.camInitFailed => ~hist.loopEntered
    /\ (hist.camInitFailed /\ pc["main"] = "m_returned") => exitStatus # 0

\* C10 (the claim as stated).  If GPIO setup raises, the command loop is never
\* entered.
C10_GpioFailureIsFatal ==
    hist.gpioFailed => ~hist.loopEntered

\* C10 (amended).  If GPIO setup raises, _setup_gpio catches the exception and
\* startup goes on without the button: no edge ever starts a callback, and
\* main() returns without having entered the command loop only if opening the
\* camera or starting the preview raised.
C10_GpioFailureDisablesButton ==
    hist.gpioFailed =>
        /\ ~gpioRegistered /\ lastcall = -1 /\ pending = <<>> /\ pc["button"] = "idle"
        /\ pc["main"] \notin {"m_gpio"}
        /\ (pc["main"] = "m_returned" /\ ~hist.loopEntered)
              => (hist.camInitFailed \/ failures > 0)

C10_LoopWithoutButton ==
    /\ hist.gpioFailed
    /\ hist.loopEntered
    /\ pc["main"] = "m_input"
    /\ is_running

\* ---- leaving the command loop (Spec)
\* where the foreground thread stands while it runs cleanup (and the
\* stop_preview cleanup calls)
InCleanup ==
    \/ pc["main"] \in {"cl_prev", "cl_close", "cl_gpio", "cl_except", "cl_end"}
    \/ /\ pc["main"] \in {"stp_check", "stp_prev", "stp_stop", "stp_flag", "stp_except"}
       /\ ret = "cl_close"

\* C11.  Once the loop has received 'q' or a KeyboardInterrupt, the foreground
\* thread processes no further command: it stands at the call of cleanup, is
\* inside cleanup, or main() has returned after cleanup was invoked.
C11_QuitLeadsToCleanup ==
    hist.quit =>
        /\ hist.loopEntered
        /\ \/ pc["main"] = "cl_flag" /\ ~hist.cleaned
           \/ InCleanup /\ hist.cleaned
           \/ pc["main"] = "m_returned" /\ hist.cleaned /\ exitStatus = 0

C11_ReturnedAfterQuit ==
    /\ hist.quit
    /\ pc["main"] = "m_returned"
    /\ hist.cleaned
    /\ ~devOpen

\* ---- cleanup called twice in a row (SpecApi)
\* C12.  (the claim as stated; self.picam2 is never reset, so the second
\* cleanup calls close() again)  The second of two cleanup calls in a row
\* leaves is_running and preview_active as the first left them and issues no
\* call on the camera handle, which the first has released.
C12_CleanupIdempotent ==
    (mode = "api" /\ pc["main"] = "api" /\ hist.op = "cleanup" /\ hist.prev.op = "cleanup")
        => /\ preview_active = hist.prev.obs[1]
           /\ is_running = hist.prev.obs[2]
           /\ hist.ops = 0

\* ---- the callback's guard (Spec)
\* C13.  (the claim as stated; the test of is_running and the call are not
\* atomic, so it fails)  The button callback invokes capture_photo only while
\* is_running is true: never before start_preview has succeeded, never after
\* 'q', an interrupt or cleanup has set is_running false.
C13_ButtonOnlyWhileRunning ==
    [][(pc["button"] = "bp_call" /\ pc'["button"] = "cap_name") => is_running]_vars

\* ---- a device call raises (SpecApi)
\* C14.  When a device call fails inside start_preview, stop_preview or
\* capture_photo, the exception is handled inside the method, which returns to
\* its caller, and from the failure on is_running and preview_active have the
\* values they had when the method was called.
C14_FlagsKeptOnFailure ==
    (/\ mode = "api"
     /\ hist.op \in {"start_preview", "stop_preview", "capture_photo"}
     /\ hist.callFailed["main"])
        => /\ preview_active = hist.prev.obs[1]
           /\ is_running = hist.prev.obs[2]
           /\ pc["main"] \in {"sp_except", "stp_except", "cap_except", "cap_back",
                               "cap_stop2", "cap_conf_prev", "cap_start_prev2",
                               "cap_start2", "cap_exists", "cap_ret", "api"}

C14_StartFailedHalfway ==
    /\ mode = "api" /\ pc["main"] = "api"
    /\ hist.op = "start_preview" /\ hist.callFailed["main"]
    /\ devOpen /\ devPreview /\ ~devStarted
    /\ ~preview_active /\ ~is_running

\* ---- post-processing (Spec)
\* C15.  (the claim as stated; _button_pressed drops what capture_photo
\* returns, so it fails)  Whenever capture_photo has returned a path to its
\* caller, the command loop or the button callback, the caller goes on to
\* apply_post_processing with that path; apply_post_processing is never
\* invoked for a capture that returned None.
C15_PostProcessedEverywhere ==
    /\ \A t \in Threads :
          (pc[t] \in {"m_post", "m_apply", "bp_ret"} /\ result[t] # NoFile)
              => (pc[t] \in {"m_post", "m_apply"} /\ result[t] \in files)
    /\ pc["main"] = "m_apply" => result["main"] # NoFile

\* ---- the command loop goes on (Spec)
\* where the foreground thread stands while it is in the command loop
InLoop ==
    \/ pc["main"] \in {"m_while", "m_input", "m_post", "m_apply"}
    \/ InCapture("main")

C17_ConfigureWhileStopped ==
    /\ pc["main"] \in {"sp_conf", "cap_conf_still", "cap_conf_prev"} => ~devStarted
    /\ pc["main"] = "cap_file" => ~devFresh

\* ---- capture_file (Spec)
\* C18.  (the claim as stated; two capture_photo calls running at once undo
\* each other's mode switch, so it fails)  Each capture_photo call issues
\* capture_file at most once, exactly once when no device call in it fails, and
\* whenever a call is about to issue capture_file the configuration applied to
\* the device is the still profile, also while another capture_photo runs.
C18_OneShotInStill ==
    \A t \in Threads :
        /\ hist.shots[t] <= 1
        /\ (pc[t] = "cap_ret" /\ ~hist.callFailed[t]) => hist.shots[t] = 1
        /\ pc[t] = "cap_file" => devConfig = StillConfig

\* ---- the settle delay (SpecApi)
\* C19.  A capture_photo call that switches the device to the still profile
\* sleeps after the still profile was configured and the device restarted and
\* before capture_file is issued, so that capture_file is issued at least the
\* settle delay after the call began; a call that does not switch imposes no
\* delay.
C19_SettleBeforeShot ==
    /\ pc["main"] \in {"cap_sleep", "cap_wake"}
          => /\ needs_switch["main"]
             /\ devConfig = StillConfig /\ devStarted /\ ~devFresh
             /\ hist.shots["main"] = 0
    /\ (pc["main"] = "cap_file" /\ needs_switch["main"])
          => /\ now - SecondShot.start >= SettleSeconds * TicksPerSecond
             /\ hist.shots["main"] = 0
    /\ (pc["main"] \in {"cap_file", "cap_back", "cap_exists", "cap_ret"}
            /\ ~needs_switch["main"])
          => now = SecondShot.start

C19_SettledShot ==
    /\ pc["main"] = "cap_back"
    /\ needs_switch["main"]
    /\ hist.shots["main"] = 1
    /\ filename["main"] \in files
    /\ now - SecondShot.start >= SettleSeconds * TicksPerSecond

\* ---- the flag and the preview window (SpecApi)
\* C20.  In a sequential run in which no device call has failed, between
\* operations preview_active equals the state of the device's preview window,
\* the window is started only while it is not shown and stopped only while it
\* is shown.
C20_FlagMatchesWindow ==
    (mode = "api" /\ failures = 0) =>
        /\ pc["main"] = "api" => preview_active = devPreview
        /\ (\/ pc["main"] \in {"sp_prev", "cap_start_prev2"}
            \/ pc["main"] = "cap_start_prev1" /\ was_preview["main"])
              => ~devPreview
        /\ (\/ pc["main"] = "stp_prev"
            \/ pc["main"] = "cap_stop_prev1" /\ preview_active
            \/ pc["main"] = "cap_back" /\ needs_switch["main"] /\ preview_active)
              => devPreview

C20_PreviewBackAfterCapture ==
    /\ mode = "api" /\ failures = 0
    /\ pc["main"] = "api"
    /\ hist.op = "capture_photo"
    /\ files # {}
    /\ preview_size # still_size
    /\ preview_active /\ devPreview /\ devConfig = PreviewConfig

\* ---- the initial start_preview fails (Spec)
\* C21.  If the start_preview of run_interactive_mode raises, is_running stays
\* false: the loop reads no command, no capture_photo is ever invoked, by the
\* keyboard or by the button, no photo is written, and the foreground thread
\* goes from the loop test straight to cleanup.
C21_FailedStartSkipsLoop ==
    hist.startFailed =>
        /\ ~is_running /\ ~preview_active
        /\ ~hist.loopEntered /\ ~hist.quit
        /\ hist.captures = 0 /\ files = {}
        /\ pc["button"] = "idle"
        /\ \/ pc["main"] = "m_while" /\ ~hist.cleaned
           \/ pc["main"] = "cl_flag" /\ ~hist.cleaned
           \/ InCleanup /\ hist.cleaned
           \/ pc["main"] = "m_returned" /\ hist.cleaned

C21_ButtonIgnoredAfterFailedStart ==
    /\ hist.startFailed
    /\ pc["main"] = "m_returned"
    /\ hist.cleaned
    /\ hist.edge.skipped
    /\ hist.captures = 0

====
